---- MODULE Spec2Model ----
(***************************************************************************)
(* The self-sorting array of autonomous agents: the Agent decision and     *)
(* negotiation policy (agent.js) and the Simulation tick engine            *)
(* (simulation.js), with the lifecycle calls the page wires to its         *)
(* buttons (main.js).                                                      *)
(*                                                                         *)
(* JavaScript arrays are modelled as functions over 0 .. n-1.  Fractions   *)
(* (stubbornness, Math.random()) are modelled in hundredths: 30 is 0.3.    *)
(* The Agent fields id and energy are not modelled: nothing reads them.    *)
(***************************************************************************)
EXTENDS Integers, Sequences, FiniteSets, TLC

\* ---------------------------------------------------------------- bounds
\* Largest agent count given to the constructor.
MaxCount == 3
\* Largest agent count given to the constructor together with stubbornness 1,
\* where no Math.random() result changes what a tick does.
MaxStubbornCount == 4
\* Largest value of the step counter: no tick is taken beyond it.
MaxStep == 4
\* Largest value of the step counter in a run of StepSpec with stubbornness 1.
MaxRunStep == 12
\* Largest number of pending timeouts that this._timer no longer names.
MaxStray == 2
\* Largest number of direct notifyJam/notifySwap calls in AgentSpec.
MaxEvents == 14
\* Largest value of the jams counter that RunSpec tells apart.
MaxJamsSeen == 1

\* ------------------------------------------------------ program constants
\* this.memory.length > 12
MemoryLimit == 12
\* Math.min(this.jamCount, 3)
BackoffCap == 3
\* Math.random() > 0.3, in hundredths
NeutralRefusal == 30

\* Values of the stubbornness slider (0..100 percent), in hundredths.
StubbornnessLevels == {0, 30, 100}
\* Representative results of Math.random(), a number in [0, 1), in hundredths:
\* 0 itself, one in (0, 0.3], one in (0.3, 1).
RandomDraws == {0, 15, 50}

VARIABLES
    count,          \* Simulation.count
    stubbornness,   \* Simulation.stubbornness
    agents,         \* Simulation.agents: 0 .. n-1 -> agent record
    step,           \* Simulation.step
    swaps,          \* Simulation.swaps
    jams,           \* Simulation.jams
    reroutes,       \* Simulation.reroutes
    running,        \* Simulation.running
    timerLive,      \* the timeout named by Simulation._timer is still pending
    strayTimers,    \* pending timeouts that _timer no longer names
    last            \* observation only: the last call and what it did

vars == << count, stubbornness, agents, step, swaps, jams, reroutes,
           running, timerLive, strayTimers, last >>

\* ------------------------------------------------------------ small helpers
Abs(x) == IF x < 0 THEN -x ELSE x

Min(a, b) == IF a < b THEN a ELSE b

Max(a, b) == IF a > b THEN a ELSE b

\* The indices of a JavaScript array of length n.
Indices(n) == 0 .. (n - 1)

\* ------------------------------------------------------------------ Agent
\* The value of a field that holds null.
Null == "null"

\* new Agent(value); pos and goalIndex are assigned by reset right after.
\* trace is observation only: every event ever handed to remember, in order.
Agent(value) ==
    [ value        |-> value,
      goalIndex    |-> Null,
      pos          |-> Null,
      state        |-> "idle",
      patience     |-> 3,
      jamCount     |-> 0,
      totalJams    |-> 0,
      totalSwaps   |-> 0,
      waitTicks    |-> 0,
      stubbornness |-> 30,
      memory       |-> << >>,
      trace        |-> << >> ]

\* get atGoal
atGoal(a) == a.pos = a.goalIndex

\* get distanceToGoal
distanceToGoal(a) == a.goalIndex - a.pos

\* _remember that drops the newest event (pop) instead of the oldest.
rememberDropsNewest(a, event) ==
    LET pushed == Append(a.memory, event)
    IN  [ a EXCEPT !.memory = IF Len(pushed) > MemoryLimit THEN a.memory ELSE pushed,
                   !.trace  = Append(a.trace, event) ]

\* _remember(event): push, then shift once the length exceeds the limit.
remember(a, event) ==
    LET pushed == Append(a.memory, event)
    IN  [ a EXCEPT !.memory = IF Len(pushed) > MemoryLimit THEN Tail(pushed) ELSE pushed,
                   !.trace  = Append(a.trace, event) ]

\* notifyJam that sets no cooldown.
notifyJamNoBackoff(a) ==
    LET b == [ a EXCEPT !.jamCount  = a.jamCount + 1,
                        !.totalJams = a.totalJams + 1,
                        !.waitTicks = 0,
                        !.state     = "jammed" ]
    IN  [ b EXCEPT !.memory = IF Len(a.memory) + 1 > MemoryLimit
                              THEN Tail(Append(a.memory, "jam"))
                              ELSE Append(a.memory, "jam"),
                   !.trace  = Append(a.trace, "jam") ]

\* notifyJam()
notifyJam(a) ==
    LET b == [ a EXCEPT !.jamCount  = a.jamCount + 1,
                        !.totalJams = a.totalJams + 1,
                        !.waitTicks = Min(a.jamCount + 1, BackoffCap),
                        !.state     = "jammed" ]
    IN  remember(b, "jam")

\* notifySwap without the floor at 0 on jamCount.
notifySwapNoFloor(a, newPos) ==
    LET b == [ a EXCEPT !.pos        = newPos,
                        !.totalSwaps = a.totalSwaps + 1,
                        !.jamCount   = a.jamCount - 1 ]
    IN  [ b EXCEPT !.memory = IF Len(a.memory) + 1 > MemoryLimit
                              THEN Tail(Append(a.memory, "swap"))
                              ELSE Append(a.memory, "swap"),
                   !.trace  = Append(a.trace, "swap") ]

\* notifySwap that takes the new position for the goal as well.
notifySwapMovesGoal(a, newPos) ==
    LET b == [ a EXCEPT !.pos        = newPos,
                        !.goalIndex  = newPos,
                        !.totalSwaps = a.totalSwaps + 1,
                        !.jamCount   = Max(0, a.jamCount - 1) ]
    IN  [ b EXCEPT !.memory = IF Len(a.memory) + 1 > MemoryLimit
                              THEN Tail(Append(a.memory, "swap"))
                              ELSE Append(a.memory, "swap"),
                   !.trace  = Append(a.trace, "swap") ]

\* notifySwap(newPos)
notifySwap(a, newPos) ==
    LET b == [ a EXCEPT !.pos        = newPos,
                        !.totalSwaps = a.totalSwaps + 1,
                        !.jamCount   = Max(0, a.jamCount - 1) ]
    IN  remember(b, "swap")

\* decide that reroutes only once jamCount exceeds patience.
decideLateReroute(a, leftNeighbor, rightNeighbor) ==
    LET dist     == distanceToGoal(a)
        wantDir  == IF dist > 0 THEN 1 ELSE -1
        neighbor == IF wantDir = -1 THEN leftNeighbor ELSE rightNeighbor
    IN  IF atGoal(a)
        THEN [ agent  |-> [ a EXCEPT !.state = "satisfied" ],
               intent |-> [ action |-> "stay", direction |-> 0 ],
               branch |-> "home" ]
        ELSE IF a.waitTicks > 0
        THEN [ agent  |-> [ a EXCEPT !.waitTicks = a.waitTicks - 1, !.state = "jammed" ],
               intent |-> [ action |-> "wait", direction |-> 0 ],
               branch |-> "cooldown" ]
        ELSE IF neighbor = {}
        THEN [ agent  |-> [ a EXCEPT !.state = "idle" ],
               intent |-> [ action |-> "stay", direction |-> 0 ],
               branch |-> "edge" ]
        ELSE IF a.jamCount > a.patience
        THEN [ agent  |-> [ a EXCEPT !.jamCount = 0, !.state = "rerouting" ],
               intent |-> [ action |-> "push", direction |-> -wantDir ],
               branch |-> "reroute" ]
        ELSE [ agent  |-> [ a EXCEPT !.state = "moving" ],
               intent |-> [ action |-> "move", direction |-> wantDir ],
               branch |-> "move" ]

\* decide with the desired direction taken away from the goal.
decideAway(a, leftNeighbor, rightNeighbor) ==
    LET dist     == distanceToGoal(a)
        wantDir  == IF dist > 0 THEN -1 ELSE 1
        neighbor == IF wantDir = -1 THEN leftNeighbor ELSE rightNeighbor
    IN  IF atGoal(a)
        THEN [ agent  |-> [ a EXCEPT !.state = "satisfied" ],
               intent |-> [ action |-> "stay", direction |-> 0 ],
               branch |-> "home" ]
        ELSE IF a.waitTicks > 0
        THEN [ agent  |-> [ a EXCEPT !.waitTicks = a.waitTicks - 1, !.state = "jammed" ],
               intent |-> [ action |-> "wait", direction |-> 0 ],
               branch |-> "cooldown" ]
        ELSE IF neighbor = {}
        THEN [ agent  |-> [ a EXCEPT !.state = "idle" ],
               intent |-> [ action |-> "stay", direction |-> 0 ],
               branch |-> "edge" ]
        ELSE IF a.jamCount >= a.patience
        THEN [ agent  |-> [ a EXCEPT !.jamCount = 0, !.state = "rerouting" ],
               intent |-> [ action |-> "push", direction |-> -wantDir ],
               branch |-> "reroute" ]
        ELSE [ agent  |-> [ a EXCEPT !.state = "moving" ],
               intent |-> [ action |-> "move", direction |-> wantDir ],
               branch |-> "move" ]

\* decide(leftNeighbor, rightNeighbor): the agent after the call, the intent
\* returned and the branch that returned it.  A neighbour is passed as a set:
\* empty for null, else the one agent.
decide(a, leftNeighbor, rightNeighbor) ==
    LET dist     == distanceToGoal(a)
        wantDir  == IF dist > 0 THEN 1 ELSE -1
        neighbor == IF wantDir = -1 THEN leftNeighbor ELSE rightNeighbor
    IN  IF atGoal(a)
        THEN [ agent  |-> [ a EXCEPT !.state = "satisfied" ],
               intent |-> [ action |-> "stay", direction |-> 0 ],
               branch |-> "home" ]
        ELSE IF a.waitTicks > 0
        THEN [ agent  |-> [ a EXCEPT !.waitTicks = a.waitTicks - 1, !.state = "jammed" ],
               intent |-> [ action |-> "wait", direction |-> 0 ],
               branch |-> "cooldown" ]
        ELSE IF neighbor = {}
        THEN [ agent  |-> [ a EXCEPT !.state = "idle" ],
               intent |-> [ action |-> "stay", direction |-> 0 ],
               branch |-> "edge" ]
        ELSE IF a.jamCount >= a.patience
        THEN [ agent  |-> [ a EXCEPT !.jamCount = 0, !.state = "rerouting" ],
               intent |-> [ action |-> "push", direction |-> -wantDir ],
               branch |-> "reroute" ]
        ELSE [ agent  |-> [ a EXCEPT !.state = "moving" ],
               intent |-> [ action |-> "move", direction |-> wantDir ],
               branch |-> "move" ]

\* The branch taken were the hypothetical position two steps away.
considerBranchTwoSteps(a, requesterDir) ==
    LET hypotheticalPos == a.pos + 2 * requesterDir
        currentDist     == Abs(distanceToGoal(a))
        newDist         == Abs(a.goalIndex - hypotheticalPos)
    IN  IF newDist < currentDist THEN "helps"
        ELSE IF newDist = currentDist THEN "neutral"
        ELSE "hurts"

\* The branch of considerSwap(requesterDir) the agent takes.
considerBranch(a, requesterDir) ==
    LET hypotheticalPos == a.pos + requesterDir
        currentDist     == Abs(distanceToGoal(a))
        newDist         == Abs(a.goalIndex - hypotheticalPos)
    IN  IF newDist < currentDist THEN "helps"
        ELSE IF newDist = currentDist THEN "neutral"
        ELSE "hurts"

\* considerSwap that draws against stubbornness without looking at what the
\* swap does to the agent's own distance.
considerSwapHeedless(a, requesterDir, random) == random > a.stubbornness

\* considerSwap(requesterDir), with random the result of its Math.random().
considerSwap(a, requesterDir, random) ==
    LET branch == considerBranch(a, requesterDir)
    IN  IF branch = "helps" THEN TRUE
        ELSE IF branch = "neutral" THEN random > NeutralRefusal
        ELSE random > a.stubbornness

\* ------------------------------------------------------------- Simulation
\* The length of a JavaScript array.
Length(arr) == Cardinality(DOMAIN arr)

\* The one-to-one maps of a set of indices onto itself.
Rearrangements(S) == { p \in [S -> S] : \A x, y \in S : p[x] = p[y] => x = y }

\* shuffle(arr): Fisher-Yates with Math.random() can leave every ordering.
shuffle(arr) == { [ i \in DOMAIN arr |-> arr[p[i]] ] : p \in Rearrangements(DOMAIN arr) }

\* One step of the ascending sort: v put before the first larger element.
RECURSIVE insertAscending(_, _)
insertAscending(seq, v) ==
    IF seq = << >> THEN << v >>
    ELSE IF v - Head(seq) < 0 THEN << v >> \o seq
    ELSE << Head(seq) >> \o insertAscending(Tail(seq), v)

RECURSIVE sortedPrefix(_, _)
sortedPrefix(arr, k) ==
    IF k = 0 THEN << >> ELSE insertAscending(sortedPrefix(arr, k - 1), arr[k - 1])

\* The sort with the comparator the other way round: (a, b) => b - a.
sortDescending(arr) ==
    LET seq == sortedPrefix(arr, Length(arr))
        n   == Length(arr)
    IN  [ i \in DOMAIN arr |-> seq[n - i] ]

\* [...values].sort((a, b) => a - b)
sortAscending(arr) ==
    LET seq == sortedPrefix(arr, Length(arr))
    IN  [ i \in DOMAIN arr |-> seq[i + 1] ]

\* arr.indexOf(v): the first index holding v, or -1.
indexOf(arr, v) ==
    LET hits == { i \in DOMAIN arr : arr[i] = v }
    IN  IF hits = {} THEN -1 ELSE CHOOSE i \in hits : \A h \in hits : i <= h

\* Array.from({ length: n }, (_, i) => i + 1)
freshValues(n) == [ i \in Indices(n) |-> i + 1 ]

\* reset() with goals counted from 1.
resetAgentsGoalFromOne(values, stub) ==
    LET sorted == sortAscending(values)
    IN  [ i \in DOMAIN values |->
            [ Agent(values[i]) EXCEPT !.pos          = i,
                                      !.goalIndex    = indexOf(sorted, values[i]) + 1,
                                      !.stubbornness = stub ] ]

\* The agents reset() builds from the shuffled values.
resetAgents(values, stub) ==
    LET sorted == sortAscending(values)
    IN  [ i \in DOMAIN values |->
            [ Agent(values[i]) EXCEPT !.pos          = i,
                                      !.goalIndex    = indexOf(sorted, values[i]),
                                      !.stubbornness = stub ] ]

\* isSorted()
isSorted(ags) == \A i \in DOMAIN ags : atGoal(ags[i])

\* snapshot()
snapshot(ags, st, sw, jm, rr) ==
    [ step     |-> st,
      swaps    |-> sw,
      jams     |-> jm,
      reroutes |-> rr,
      sorted   |-> isSorted(ags),
      agents   |-> [ i \in DOMAIN ags |->
                       [ value     |-> ags[i].value,
                         pos       |-> ags[i].pos,
                         goal      |-> ags[i].goalIndex,
                         state     |-> ags[i].state,
                         jamCount  |-> ags[i].jamCount,
                         totalJams |-> ags[i].totalJams ] ] ]

\* _swap that tells each agent the index it came from.
swapStalePos(s, i, j) ==
    LET a == s.agents[i]
        b == s.agents[j]
    IN  [ s EXCEPT !.agents = [ s.agents EXCEPT ![i] = notifySwap(b, j),
                                                ![j] = notifySwap(a, i) ],
                   !.swaps  = s.swaps + 1 ]

\* _swap that does not count the swap.
swapUncounted(s, i, j) ==
    LET a == s.agents[i]
        b == s.agents[j]
    IN  [ s EXCEPT !.agents = [ s.agents EXCEPT ![i] = notifySwap(b, i),
                                                ![j] = notifySwap(a, j) ] ]

\* _swap(i, j) on the engine fields s = [agents, swaps, ...].
swap(s, i, j) ==
    LET a == s.agents[i]
        b == s.agents[j]
    IN  [ s EXCEPT !.agents = [ s.agents EXCEPT ![i] = notifySwap(b, i),
                                                ![j] = notifySwap(a, j) ],
                   !.swaps  = s.swaps + 1 ]

\* The intent collection loop of _tick from the k-th entry of order on.
\* c = [agents, intents, branches].
RECURSIVE collectIntents(_, _, _)
collectIntents(c, order, k) ==
    IF k >= Length(order) THEN c
    ELSE LET i     == order[k]
             n     == Length(c.agents)
             left  == IF i > 0 THEN { c.agents[i - 1] } ELSE {}
             right == IF i < n - 1 THEN { c.agents[i + 1] } ELSE {}
             next  == { [ agents   |-> [ c.agents EXCEPT ![i] = d.agent ],
                          intents  |-> [ c.intents EXCEPT ![i] = d.intent ],
                          branches |-> [ c.branches EXCEPT ![i] = d.branch ] ] :
                        d \in { decide(c.agents[i], left, right) } }
         IN  CHOOSE done \in { collectIntents(x, order, k + 1) : x \in next } : TRUE

\* A push that asks the neighbour like a move does, the draw being 0.
resolvePushAsking(s, i, j) ==
    LET neighbor == s.agents[j]
        branch   == considerBranch(neighbor, i - j)
        accepted == considerSwap(neighbor, i - j, 0)
        t        == swap(s, i, j)
    IN  IF accepted
        THEN [ t EXCEPT !.swappedThisTick = s.swappedThisTick \cup { i, j },
                        !.reroutes        = s.reroutes + 1,
                        !.events          = Append(s.events,
                             [ kind |-> "push", i |-> i, j |-> j, asked |-> TRUE,
                               branch |-> branch, requester |-> s.agents[i].value,
                               neighbor |-> neighbor.value ]) ]
        ELSE [ s EXCEPT !.agents = [ s.agents EXCEPT ![i] = notifyJam(s.agents[i]) ],
                        !.jams   = s.jams + 1,
                        !.events = Append(s.events,
                             [ kind |-> "jam", i |-> i, j |-> j, asked |-> TRUE,
                               branch |-> branch, requester |-> s.agents[i].value,
                               neighbor |-> neighbor.value ]) ]

\* The forced swap of a push intent.
resolvePush(s, i, j) ==
    LET t == swap(s, i, j)
    IN  [ t EXCEPT !.swappedThisTick = s.swappedThisTick \cup { i, j },
                   !.reroutes        = s.reroutes + 1,
                   !.events          = Append(s.events,
                        [ kind |-> "push", i |-> i, j |-> j, asked |-> FALSE,
                          branch |-> "none", requester |-> s.agents[i].value,
                          neighbor |-> s.agents[j].value ]) ]

\* A move intent whose accepted swap is not entered in swappedThisTick.
resolveMoveNoMark(s, i, j, direction, random) ==
    LET neighbor == s.agents[j]
        branch   == considerBranch(neighbor, -direction)
        accepted == considerSwap(neighbor, -direction, random)
        t        == swap(s, i, j)
    IN  IF accepted
        THEN [ t EXCEPT !.events = Append(s.events,
                             [ kind |-> "swap", i |-> i, j |-> j, asked |-> TRUE,
                               branch |-> branch, requester |-> s.agents[i].value,
                               neighbor |-> neighbor.value ]) ]
        ELSE [ s EXCEPT !.agents = [ s.agents EXCEPT ![i] = notifyJam(s.agents[i]) ],
                        !.jams   = s.jams + 1,
                        !.events = Append(s.events,
                             [ kind |-> "jam", i |-> i, j |-> j, asked |-> TRUE,
                               branch |-> branch, requester |-> s.agents[i].value,
                               neighbor |-> neighbor.value ]) ]

\* A move intent whose refusal is held against the neighbour as well.
resolveMoveBlamesBoth(s, i, j, direction, random) ==
    LET neighbor == s.agents[j]
        branch   == considerBranch(neighbor, -direction)
        accepted == considerSwap(neighbor, -direction, random)
        t        == swap(s, i, j)
    IN  IF accepted
        THEN [ t EXCEPT !.swappedThisTick = s.swappedThisTick \cup { i, j },
                        !.events          = Append(s.events,
                             [ kind |-> "swap", i |-> i, j |-> j, asked |-> TRUE,
                               branch |-> branch, requester |-> s.agents[i].value,
                               neighbor |-> neighbor.value ]) ]
        ELSE [ s EXCEPT !.agents = [ s.agents EXCEPT ![i] = notifyJam(s.agents[i]),
                                                     ![j] = notifyJam(neighbor) ],
                        !.jams   = s.jams + 1,
                        !.events = Append(s.events,
                             [ kind |-> "jam", i |-> i, j |-> j, asked |-> TRUE,
                               branch |-> branch, requester |-> s.agents[i].value,
                               neighbor |-> neighbor.value ]) ]

\* A move intent: the neighbour is asked, with random its Math.random().
resolveMove(s, i, j, direction, random) ==
    LET neighbor == s.agents[j]
        branch   == considerBranch(neighbor, -direction)
        accepted == considerSwap(neighbor, -direction, random)
        t        == swap(s, i, j)
    IN  IF accepted
        THEN [ t EXCEPT !.swappedThisTick = s.swappedThisTick \cup { i, j },
                        !.events          = Append(s.events,
                             [ kind |-> "swap", i |-> i, j |-> j, asked |-> TRUE,
                               branch |-> branch, requester |-> s.agents[i].value,
                               neighbor |-> neighbor.value ]) ]
        ELSE [ s EXCEPT !.agents = [ s.agents EXCEPT ![i] = notifyJam(s.agents[i]) ],
                        !.jams   = s.jams + 1,
                        !.events = Append(s.events,
                             [ kind |-> "jam", i |-> i, j |-> j, asked |-> TRUE,
                               branch |-> branch, requester |-> s.agents[i].value,
                               neighbor |-> neighbor.value ]) ]

\* The resolution loop of _tick from the k-th entry of order on: every result
\* the random draws of considerSwap allow.
\* s = [agents, swaps, jams, reroutes, swappedThisTick, events].
RECURSIVE resolveIntents(_, _, _, _)
resolveIntents(s, intents, order, k) ==
    IF k >= Length(order) THEN { s }
    ELSE LET i      == order[k]
             intent == intents[i]
             j      == i + intent.direction
             rest(t) == UNION { resolveIntents(x, intents, order, k + 1) : x \in { t } }
         IN  IF i \in s.swappedThisTick THEN rest(s)
             ELSE IF intent.direction = 0 THEN rest(s)
             ELSE IF j < 0 \/ j >= Length(s.agents) THEN rest(s)
             ELSE IF j \in s.swappedThisTick THEN rest(s)
             ELSE IF intent.action = "push" THEN rest(resolvePush(s, i, j))
             ELSE UNION { rest(resolveMove(s, i, j, intent.direction, random)) :
                              random \in RandomDraws }

\* The body of _tick after the terminal check, for one shuffled order: every
\* result [agents, swaps, jams, reroutes, decided, intents, branches, events].
tickResults(ags, sw, jm, rr, order) ==
    LET n == Length(ags)
        collected == { collectIntents(
                          [ agents   |-> ags,
                            intents  |-> [ i \in Indices(n) |-> Null ],
                            branches |-> [ i \in Indices(n) |-> Null ] ],
                          order, 0) }
        start(c) == { [ agents |-> c.agents, swaps |-> sw, jams |-> jm, reroutes |-> rr,
                        swappedThisTick |-> {}, events |-> << >> ] }
    IN  UNION { { [ agents   |-> r.agents,
                    swaps    |-> r.swaps,
                    jams     |-> r.jams,
                    reroutes |-> r.reroutes,
                    decided  |-> c.agents,
                    intents  |-> c.intents,
                    branches |-> c.branches,
                    events   |-> r.events ] :
                  r \in UNION { resolveIntents(s, c.intents, order, 0) : s \in start(c) } } :
                c \in collected }

\* ---------------------------------------------------------------- actions
\* What last holds after a call that ran no pass of _tick.
quiet(op, kind) ==
    [ op |-> op, tick |-> kind, decided |-> << >>, intents |-> << >>,
      branches |-> << >>, events |-> << >> ]

\* new Simulation({ count, stubbornness, ... }): the fields, then reset().
Construct(counts, levels) ==
    /\ count \in counts
    /\ stubbornness \in levels
    /\ agents \in { resetAgents(values, stubbornness) : values \in shuffle(freshValues(count)) }
    /\ step = 0
    /\ swaps = 0
    /\ jams = 0
    /\ reroutes = 0
    /\ running = FALSE
    /\ timerLive = FALSE
    /\ strayTimers = 0
    /\ last = quiet("new", "none")

Init == Construct(0 .. MaxCount, StubbornnessLevels)

\* reset(): stop(), the counters zeroed, a freshly shuffled set of agents.
Reset ==
    /\ running' = FALSE
    /\ timerLive' = FALSE
    /\ step' = 0
    /\ swaps' = 0
    /\ jams' = 0
    /\ reroutes' = 0
    /\ agents' \in { resetAgents(values, stubbornness) : values \in shuffle(freshValues(count)) }
    /\ last' = quiet("reset", "none")
    /\ UNCHANGED << count, stubbornness, strayTimers >>

\* _schedule(): a new timeout takes the place of the one _timer named, which
\* stays pending if it was.
Schedule(live, stray) ==
    /\ timerLive' = TRUE
    /\ strayTimers' = IF live THEN stray + 1 ELSE stray
    /\ strayTimers' <= MaxStray

\* run()
Run ==
    /\ IF running
       THEN UNCHANGED << running, timerLive, strayTimers >>
       ELSE running' = TRUE /\ Schedule(timerLive, strayTimers)
    /\ last' = quiet("run", "none")
    /\ UNCHANGED << count, stubbornness, agents, step, swaps, jams, reroutes >>

\* stop()
Stop ==
    /\ running' = FALSE
    /\ timerLive' = FALSE
    /\ last' = quiet("stop", "none")
    /\ UNCHANGED << count, stubbornness, agents, step, swaps, jams, reroutes, strayTimers >>

\* _tick(), called by op when the pending timeouts are live and stray; cap
\* is the bound on the step counter.
Tick(op, live, stray, cap) ==
    IF isSorted(agents)
    THEN /\ running' = FALSE
         /\ timerLive' = FALSE
         /\ strayTimers' = stray
         /\ agents' = [ i \in DOMAIN agents |-> [ agents[i] EXCEPT !.state = "satisfied" ] ]
         /\ last' = quiet(op, "terminal")
         /\ UNCHANGED << count, stubbornness, step, swaps, jams, reroutes >>
    ELSE /\ step < cap
         /\ step' = step + 1
         /\ \E order \in shuffle([ i \in Indices(Length(agents)) |-> i ]) :
              \E r \in tickResults(agents, swaps, jams, reroutes, order) :
                 /\ agents' = r.agents
                 /\ swaps' = r.swaps
                 /\ jams' = r.jams
                 /\ reroutes' = r.reroutes
                 /\ last' = [ op |-> op, tick |-> "full", decided |-> r.decided,
                              intents |-> r.intents, branches |-> r.branches,
                              events |-> r.events ]
         /\ IF running
            THEN Schedule(live, stray)
            ELSE timerLive' = live /\ strayTimers' = stray
         /\ UNCHANGED << count, stubbornness, running >>

\* stepOnce()
StepOnce == Tick("stepOnce", timerLive, strayTimers, MaxStep)

\* The timeout that _timer names fires.
TimerFires ==
    /\ timerLive
    /\ Tick("timer", FALSE, strayTimers, MaxStep)

\* A pending timeout that _timer no longer names fires.
StrayTimerFires ==
    /\ strayTimers > 0
    /\ Tick("timer", timerLive, strayTimers - 1, MaxStep)

\* The stubbornness slider: the engine's value and every agent's.
SetStubbornness ==
    /\ \E v \in StubbornnessLevels :
         /\ v # stubbornness
         /\ stubbornness' = v
         /\ agents' = [ i \in DOMAIN agents |-> [ agents[i] EXCEPT !.stubbornness = v ] ]
    /\ last' = quiet("stubbornness", "none")
    /\ UNCHANGED << count, step, swaps, jams, reroutes, running, timerLive, strayTimers >>

Next ==
    \/ Reset
    \/ Run
    \/ Stop
    \/ StepOnce
    \/ TimerFires
    \/ StrayTimerFires
    \/ SetStubbornness

Spec == Init /\ [][Next]_vars

\* The Step button pressed again and again on a fresh simulation.  Runs with
\* stubbornness 1 are followed further and on more agents than the others.
StepInit ==
    \/ Construct(0 .. MaxCount, StubbornnessLevels)
    \/ Construct(0 .. MaxStubbornCount, { 100 })

StepAgain ==
    Tick("stepOnce", timerLive, strayTimers,
         IF stubbornness = 100 THEN MaxRunStep ELSE MaxStep)

StepNext == StepAgain

StepSpec == StepInit /\ [][StepNext]_vars

\* An agent of a fresh simulation is told of jams and swaps directly, in any
\* order, as a test of the Agent class would do.
AgentInit == Construct({ 1, 2 }, { 30 })

engineKept == << count, stubbornness, step, swaps, jams, reroutes,
                 running, timerLive, strayTimers >>

CallNotifyJam ==
    /\ Len(agents[0].trace) < MaxEvents
    /\ agents' = [ agents EXCEPT ![0] = notifyJam(agents[0]) ]
    /\ last' = quiet("notifyJam", "none")
    /\ UNCHANGED engineKept

CallNotifySwap ==
    /\ Len(agents[0].trace) < MaxEvents
    /\ \E newPos \in DOMAIN agents :
          agents' = [ agents EXCEPT ![0] = notifySwap(agents[0], newPos) ]
    /\ last' = quiet("notifySwap", "none")
    /\ UNCHANGED engineKept

AgentNext == CallNotifyJam \/ CallNotifySwap

AgentSpec == AgentInit /\ [][AgentNext]_vars

\* A simulation with stubbornness 0 on which run() has been called: the
\* timeout fires again and again.  No step reads the counters or the event
\* logs, so this specification keeps of them only whether a proposal has been
\* refused (jams, up to MaxJamsSeen); its behaviours then move in finitely
\* many states.
RunInit ==
    /\ count \in 0 .. MaxCount
    /\ stubbornness = 0
    /\ agents \in { resetAgents(values, stubbornness) : values \in shuffle(freshValues(count)) }
    /\ step = 0
    /\ swaps = 0
    /\ jams = 0
    /\ reroutes = 0
    /\ running = TRUE
    /\ timerLive = TRUE
    /\ strayTimers = 0
    /\ last = quiet("run", "none")

\* An agent without its lifetime counters and event logs.
unlogged(a) ==
    [ a EXCEPT !.totalJams = 0, !.totalSwaps = 0, !.memory = << >>, !.trace = << >> ]

\* The timeout fires and _tick runs, scheduling the next one unless sorted.
RunTick ==
    /\ timerLive
    /\ IF isSorted(agents)
       THEN /\ running' = FALSE
            /\ timerLive' = FALSE
            /\ agents' = [ i \in DOMAIN agents |-> [ agents[i] EXCEPT !.state = "satisfied" ] ]
            /\ jams' = jams
       ELSE /\ \E order \in shuffle([ i \in Indices(Length(agents)) |-> i ]) :
                 \E r \in tickResults(agents, swaps, jams, reroutes, order) :
                    /\ agents' = [ i \in DOMAIN agents |-> unlogged(r.agents[i]) ]
                    /\ jams' = Min(r.jams, MaxJamsSeen)
            /\ running' = running
            /\ timerLive' = TRUE
    /\ UNCHANGED << count, stubbornness, step, swaps, reroutes, strayTimers, last >>

RunNext == RunTick

RunSpec == RunInit /\ [][RunNext]_vars /\ WF_vars(RunTick)

\* ----------------------------------------------------------------- claims
\* The events of the last tick in which two agents changed places.
SwapEvents == { k \in 1 .. Len(last.events) : last.events[k].kind \in { "swap", "push" } }

JamEvents == { k \in 1 .. Len(last.events) : last.events[k].kind = "jam" }

PushEvents == { k \in 1 .. Len(last.events) : last.events[k].kind = "push" }

\* C1: after reset and after every tick the pos values of the agents are
\* exactly 0 .. n-1, each once, and the agent stored at index i has pos = i.
C1_PositionsArePermutation ==
    /\ DOMAIN agents = Indices(count)
    /\ \A i \in DOMAIN agents : agents[i].pos = i
    /\ { agents[i].pos : i \in DOMAIN agents } = Indices(count)
    /\ \A i, j \in DOMAIN agents : agents[i].pos = agents[j].pos => i = j

\* C1 witness: a tick has ended a run with accepted swaps, jams and a forced
\* push.
C1_Witness ==
    /\ last.tick = "full"
    /\ reroutes > 0
    /\ swaps > reroutes
    /\ jams > 0

\* The agent of ags that holds value v.
holder(ags, v) == ags[CHOOSE i \in DOMAIN ags : ags[i].value = v]

GoalsArePermutation ==
    /\ { agents[i].goalIndex : i \in DOMAIN agents } = Indices(count)
    /\ \A i, j \in DOMAIN agents : agents[i].goalIndex = agents[j].goalIndex => i = j

GoalsKept ==
    last'.op # "reset" =>
        /\ { agents'[i].value : i \in DOMAIN agents' } = { agents[i].value : i \in DOMAIN agents }
        /\ \A i \in DOMAIN agents :
              holder(agents', agents[i].value).goalIndex = agents[i].goalIndex

\* C2: the goalIndex values form a permutation of 0 .. n-1, and no step other
\* than a reset changes the goalIndex of any agent.
C2_GoalsFixed == [](GoalsArePermutation) /\ [][GoalsKept]_vars

\* C2 witness: an agent that has been jammed, rerouted and swapped more than
\* once still has the goal it was given.
C2_Witness ==
    /\ reroutes > 0
    /\ \E i \in DOMAIN agents :
          /\ agents[i].totalSwaps > 1
          /\ agents[i].totalJams > 2
          /\ agents[i].goalIndex = agents[i].value - 1

\* The values read in position order are strictly ascending.
Ascending(ags) == \A i, j \in DOMAIN ags : i < j => ags[i].value < ags[j].value

\* C3: every agent's goalIndex is the number of agents holding a smaller
\* value, and the snapshot's sorted flag is true exactly when the values read
\* in position order are strictly ascending.
C3_GoalIsRank ==
    /\ \A i \in DOMAIN agents :
          agents[i].goalIndex =
              Cardinality({ j \in DOMAIN agents : agents[j].value < agents[i].value })
    /\ snapshot(agents, step, swaps, jams, reroutes).sorted <=> Ascending(agents)

\* C3 witness: three agents that started out of order have sorted themselves.
C3_Witness ==
    /\ count = 3
    /\ swaps > 1
    /\ snapshot(agents, step, swaps, jams, reroutes).sorted
    /\ Ascending(agents)

\* C5: every agent has 0 <= waitTicks <= 3 and jamCount >= 0.
C5_BackoffBounded ==
    \A i \in DOMAIN agents :
        /\ agents[i].waitTicks >= 0
        /\ agents[i].waitTicks <= 3
        /\ agents[i].jamCount >= 0

\* C5 witness: an agent jammed a third time waits 3 ticks, and an agent with
\* no jam on its count has been swapped.
C5_Witness ==
    /\ \E i \in DOMAIN agents : agents[i].waitTicks = 3 /\ agents[i].jamCount = 3
    /\ \E i \in DOMAIN agents :
          /\ agents[i].jamCount = 0
          /\ agents[i].totalJams = 0
          /\ agents[i].totalSwaps > 0

\* No position and no agent occurs in two of the swaps listed in ev.
SwapsDisjoint(ev) ==
    \A k, m \in { x \in 1 .. Len(ev) : ev[x].kind \in { "swap", "push" } } :
        k # m =>
            /\ { ev[k].i, ev[k].j } \cap { ev[m].i, ev[m].j } = {}
            /\ { ev[k].requester, ev[k].neighbor } \cap { ev[m].requester, ev[m].neighbor } = {}

OneSwapPerTick ==
    last'.tick = "full" =>
        /\ SwapsDisjoint(last'.events)
        /\ \A i \in DOMAIN agents :
              Abs(holder(agents', agents[i].value).pos - agents[i].pos) <= 1
        /\ swaps' - swaps <= count \div 2
        /\ swaps' - swaps = Cardinality({ x \in 1 .. Len(last'.events) :
                                             last'.events[x].kind \in { "swap", "push" } })

\* C10: within one tick no position and no agent takes part in more than one
\* swap, every agent's pos changes by at most 1, and swaps grows by at most
\* floor(n / 2).
C10_OneSwapPerTick == [][OneSwapPerTick]_vars

\* C10 witness: a tick in which a later intent was dropped because its own or
\* its target's position had been used by an earlier swap of the tick.
C10_Witness ==
    /\ last.tick = "full"
    /\ \E k \in SwapEvents : \E i \in DOMAIN last.intents :
          /\ last.intents[i].direction # 0
          /\ i # last.events[k].i
          /\ { i, i + last.intents[i].direction } \cap { last.events[k].i, last.events[k].j } # {}
          /\ \A m \in 1 .. Len(last.events) : last.events[m].i # i

\* The step is a call of _tick, from stepOnce or from a timeout.
TickCalled == last'.op \in { "stepOnce", "timer" } /\ last'.tick # "none"

TerminalTickIdle ==
    (isSorted(agents) /\ TickCalled) =>
        /\ step' = step
        /\ swaps' = swaps
        /\ jams' = jams
        /\ reroutes' = reroutes
        /\ DOMAIN agents' = DOMAIN agents
        /\ \A i \in DOMAIN agents :
              /\ agents'[i].value = agents[i].value
              /\ agents'[i].pos = agents[i].pos
              /\ agents'[i].state = "satisfied"
        /\ running' = FALSE

\* C4: once every agent is at its goal, a further call of the tick leaves
\* step, swaps, jams, reroutes and all positions unchanged, sets every
\* agent's state to satisfied and leaves the scheduler stopped: running is
\* false and no tick is scheduled.
C4_TerminalTickStops ==
    [][ /\ TerminalTickIdle
        /\ (isSorted(agents) /\ TickCalled) => (~timerLive' /\ strayTimers' = 0) ]_vars

\* C7: with stubbornness 0 every move proposal that reaches a neighbour is
\* accepted: no jam is recorded (jams, every jamCount, totalJams and waitTicks
\* stay 0), no push intent is issued and reroutes stays 0.
C7_NoJamAtZeroStubbornness ==
    stubbornness = 0 =>
        /\ JamEvents = {}
        /\ jams = 0
        /\ reroutes = 0
        /\ \A i \in DOMAIN agents :
              /\ agents[i].jamCount = 0
              /\ agents[i].totalJams = 0
              /\ agents[i].waitTicks = 0
        /\ \A i \in DOMAIN last.intents : last.intents[i].action # "push"

\* The direction from an agent towards its goal.
towardGoal(a) == IF a.goalIndex > a.pos THEN 1 ELSE -1

\* decide answers jamCount >= patience with a push away from the goal.
PushDecided ==
    last'.tick = "full" =>
        \A i \in DOMAIN agents :
            ( /\ ~atGoal(agents[i])
              /\ agents[i].waitTicks = 0
              /\ agents[i].jamCount >= agents[i].patience ) =>
                /\ last'.intents[i].action = "push"
                /\ last'.intents[i].direction = -towardGoal(agents[i])
                /\ last'.decided[i].jamCount = 0

\* The push events of ev made for the intent of index i towards index j.
pushesOf(ev, i, j) ==
    { k \in 1 .. Len(ev) : ev[k].kind = "push" /\ ev[k].i = i /\ ev[k].j = j /\ ~ev[k].asked }

\* The swaps of ev, other than the push of index i, that used index i or j.
otherSwaps(ev, i, j) ==
    { k \in 1 .. Len(ev) :
        /\ ev[k].kind \in { "swap", "push" }
        /\ ~(ev[k].kind = "push" /\ ev[k].i = i)
        /\ { ev[k].i, ev[k].j } \cap { i, j } # {} }

\* Every push intent of the tick was carried out.
EveryPushSwaps ==
    last'.tick = "full" =>
        /\ \A i \in DOMAIN last'.intents :
              last'.intents[i].action = "push" =>
                  \E k \in pushesOf(last'.events, i, i + last'.intents[i].direction) :
                      holder(agents', last'.events[k].requester).pos = last'.events[k].j
        /\ reroutes' - reroutes =
              Cardinality({ i \in DOMAIN last'.intents : last'.intents[i].action = "push" })

\* Every push intent of the tick was carried out, unless its target lies
\* outside the array or another swap of the tick used one of its positions.
PushSwapsUnlessSkipped ==
    last'.tick = "full" =>
        /\ \A i \in DOMAIN last'.intents :
              LET j == i + last'.intents[i].direction
              IN  ( /\ last'.intents[i].action = "push"
                    /\ j \in DOMAIN agents
                    /\ otherSwaps(last'.events, i, j) = {} ) =>
                      \E k \in pushesOf(last'.events, i, j) :
                          holder(agents', last'.events[k].requester).pos = j
        /\ \A k \in 1 .. Len(last'.events) :
              last'.events[k].kind = "push" =>
                  /\ ~last'.events[k].asked
                  /\ last'.intents[last'.events[k].i].action = "push"
                  /\ last'.events[k].j = last'.events[k].i + last'.intents[last'.events[k].i].direction
        /\ reroutes' - reroutes =
              Cardinality({ k \in 1 .. Len(last'.events) : last'.events[k].kind = "push" })

\* C8 as claimed: an agent off its goal with no cooldown and jamCount >=
\* patience gets a push intent away from its goal and jamCount 0, and every
\* push intent of a tick is carried out in that tick without asking the
\* neighbour, reroutes growing by one for each.
C8_EveryPushSwaps == [][PushDecided /\ EveryPushSwaps]_vars

\* C8 as amended: the same, but a push intent is carried out only when its
\* target lies inside the array and no other swap of the tick used its own
\* or its target's position.
C8_PushSwapsUnlessSkipped == [][PushDecided /\ PushSwapsUnlessSkipped]_vars

\* C8 witness: the last tick carried out a push whose neighbour would have
\* refused a move.
C8_Witness ==
    /\ last.tick = "full"
    /\ \E k \in PushEvents :
          LET e == last.events[k]
          IN  /\ last.intents[e.i].action = "push"
              /\ agents[e.j].value = e.requester
              /\ agents[e.i].value = e.neighbor
              /\ agents[e.i].stubbornness = 100
              /\ Abs(agents[e.i].goalIndex - e.i) > Abs(agents[e.i].goalIndex - e.j)

\* The last n elements of seq, all of it when it is no longer than n.
lastOf(seq, n) ==
    IF Len(seq) <= n THEN seq ELSE SubSeq(seq, Len(seq) - n + 1, Len(seq))

\* C9: after any sequence of notifyJam and notifySwap calls an agent's memory
\* holds at most 12 event tags, and they are the most recent events in the
\* order they occurred.
C9_MemoryKeepsLatest ==
    \A i \in DOMAIN agents :
        /\ Len(agents[i].memory) <= 12
        /\ agents[i].memory = lastOf(agents[i].trace, 12)

\* C9 witness: more than 12 events of both kinds were recorded and the oldest
\* one differs from the oldest one kept.
C9_Witness ==
    \E i \in DOMAIN agents :
        /\ Len(agents[i].trace) > 13
        /\ Len(agents[i].memory) = 12
        /\ agents[i].trace[1] # agents[i].memory[1]
        /\ agents[i].trace[Len(agents[i].trace)] # agents[i].memory[11]

\* The run has reached sorted = true and halted.
Halted == isSorted(agents) /\ ~running /\ ~timerLive

\* C6: with stubbornness 0 every run ends sorted and halted, whatever order
\* each tick draws.  Runs in which a proposal was refused (Math.random()
\* returned 0, see C7) are left out, so a run that violates this formula
\* stays unsorted through the order of its ticks alone.
C6_AlwaysConverges == <>(Halted \/ jams > 0)

\* A timeout fires although the simulation is stopped.
TickWhileStopped == ~running /\ last'.op = "timer" /\ last'.tick # "none"

\* C11: once stop() has returned (running is false) no timeout runs a tick
\* until run() is called again, stepOnce being the only way to tick; and at
\* most one timeout is pending at any time, also when stepOnce is called
\* while the simulation is running.
C11_StopCancelsTicks == [][~TickWhileStopped /\ strayTimers' = 0]_vars

\* C12: no simulation with fewer than 2 agents exists: construction and
\* reset with a smaller count end in an error instead.
C12_CountAtLeastTwo == count >= 2 /\ Length(agents) >= 2

\* The distance to its goal of the agent holding value v, were it at index p.
distanceAt(v, p) == Abs(holder(agents, v).goalIndex - p)

\* The swap of event e brings, or would bring, the asked neighbour from
\* index e.j to index e.i: strictly closer to its goal, or strictly farther.
helpsNeighbor(e) == distanceAt(e.neighbor, e.i) < distanceAt(e.neighbor, e.j)

hurtsNeighbor(e) == distanceAt(e.neighbor, e.i) > distanceAt(e.neighbor, e.j)

JamStartsCooldown ==
    last'.tick = "full" =>
        \A k \in 1 .. Len(last'.events) :
            LET e == last'.events[k]
            IN  e.kind = "jam" =>
                    holder(agents', e.requester).waitTicks =
                        Min(last'.decided[e.i].jamCount + 1, 3)

\* An agent that enters a tick with w > 0 ticks of cooldown left issues a
\* stay or wait intent with direction 0 and leaves the tick with at least
\* w - 1 ticks left, swapped or not.
CooldownHolds ==
    last'.tick = "full" =>
        \A i \in DOMAIN agents :
            agents[i].waitTicks > 0 =>
                /\ last'.intents[i].action \in { "stay", "wait" }
                /\ last'.intents[i].direction = 0
                /\ holder(agents', agents[i].value).waitTicks >= agents[i].waitTicks - 1

\* C14: an agent whose proposal is refused, notifyJam leaving it with
\* jamCount = k, issues no move or push intent in the next min(k, 3) ticks:
\* the refusal sets a cooldown of min(k, 3), and each tick entered with a
\* cooldown left yields a stay or wait intent and takes at most one tick off
\* it, whether or not another agent's proposal swaps the agent meanwhile.
C14_BackoffOrdering == [][JamStartsCooldown /\ CooldownHolds]_vars

\* C14 witness: an agent in its cooldown issued a wait intent and was swapped
\* in the same tick on another agent's proposal.
C14_Witness ==
    /\ last.tick = "full"
    /\ \E k \in SwapEvents :
          LET e == last.events[k]
          IN  /\ e.kind = "swap"
              /\ last.branches[e.j] = "cooldown"
              /\ last.intents[e.j].action = "wait"
              /\ agents[e.i].value = e.neighbor
              /\ agents[e.i].totalJams > 0

\* The jam events of ev raised by the agent holding value v, and the swaps
\* of ev that agent took part in.
jamsOf(ev, v) == { k \in 1 .. Len(ev) : ev[k].kind = "jam" /\ ev[k].requester = v }

swapsOf(ev, v) ==
    { k \in 1 .. Len(ev) :
        ev[k].kind \in { "swap", "push" } /\ v \in { ev[k].requester, ev[k].neighbor } }

\* In a tick the resolution pass changes an agent only through its own
\* refused proposals and the swaps it takes part in.  d is the agent as the
\* decide pass left it, a the agent after the tick.
RefusalTouchesRequesterOnly ==
    last'.tick = "full" =>
        /\ \A i \in DOMAIN agents :
              LET d  == last'.decided[i]
                  a  == holder(agents', d.value)
                  nJ == Cardinality(jamsOf(last'.events, d.value))
                  nS == Cardinality(swapsOf(last'.events, d.value))
              IN  /\ nJ <= 1
                  /\ a.totalJams = d.totalJams + nJ
                  /\ nS = 0 => a.pos = d.pos /\ agents'[i] = a
                  /\ (nJ = 0 /\ nS = 0) => a = d
                  /\ (nJ = 1 /\ nS = 0) =>
                        /\ a.jamCount = d.jamCount + 1
                        /\ a.state = "jammed"
                        /\ [ a EXCEPT !.jamCount = 0, !.totalJams = 0, !.waitTicks = 0,
                                       !.state = "", !.memory = << >>, !.trace = << >> ]
                           = [ d EXCEPT !.jamCount = 0, !.totalJams = 0, !.waitTicks = 0,
                                        !.state = "", !.memory = << >>, !.trace = << >> ]
        /\ jams' - jams = Cardinality({ k \in 1 .. Len(last'.events) : last'.events[k].kind = "jam" })
        /\ ({ k \in 1 .. Len(last'.events) : last'.events[k].kind # "jam" } = {}) =>
              /\ swaps' = swaps
              /\ reroutes' = reroutes
              /\ \A i \in DOMAIN agents :
                    agents'[i].value = agents[i].value /\ agents'[i].pos = agents[i].pos

\* C15: a refused move proposal affects only the requester: its jamCount and
\* totalJams grow by 1, its state becomes jammed and jams grows by 1, while
\* the order of the array, every pos, swaps, reroutes and every field of the
\* refusing neighbour stay as they were.
C15_RefusalTouchesRequesterOnly == [][RefusalTouchesRequesterOnly]_vars

\* C15 witness: the last tick recorded a refusal; the requester carries the
\* jam and the neighbour that refused is as the decide pass left it.
C15_Witness ==
    /\ last.tick = "full"
    /\ \E k \in JamEvents :
          LET e == last.events[k]
          IN  /\ agents[e.i].value = e.requester
              /\ agents[e.i].jamCount = last.decided[e.i].jamCount + 1
              /\ agents[e.i].state = "jammed"
              /\ agents[e.j].value = e.neighbor
              /\ agents[e.j] = last.decided[e.j]
              /\ agents[e.j].state = "moving"

\* The sum over all agents of the distance to the goal.
RECURSIVE distanceFrom(_, _)
distanceFrom(ags, k) ==
    IF k >= Length(ags) THEN 0
    ELSE Abs(distanceToGoal(ags[k])) + distanceFrom(ags, k + 1)

totalDistance(ags) == distanceFrom(ags, 0)

MoveSwapsApproach ==
    last'.tick = "full" =>
        /\ \A k \in 1 .. Len(last'.events) :
              LET e == last'.events[k]
              IN  e.kind = "swap" =>
                    /\ distanceAt(e.requester, e.j) = distanceAt(e.requester, e.i) - 1
                    /\ distanceAt(e.requester, e.j) + distanceAt(e.neighbor, e.i)
                          <= distanceAt(e.requester, e.i) + distanceAt(e.neighbor, e.j)
        /\ totalDistance(agents') > totalDistance(agents) =>
              \E k \in 1 .. Len(last'.events) : last'.events[k].kind = "push"

\* C16: every swap made for a move intent takes the requester exactly one
\* position closer to its goal and does not raise the total distance of the
\* two agents; the total distance of all agents grows in a tick only if the
\* tick carried out a push.
C16_MoveSwapsApproach == [][MoveSwapsApproach]_vars

\* C16 witness: the last tick made, without any push, a move swap that took
\* the neighbour farther from its goal; the total distance is still positive.
C16_Witness ==
    /\ last.tick = "full"
    /\ PushEvents = {}
    /\ totalDistance(agents) > 0
    /\ \E k \in SwapEvents :
          /\ last.events[k].kind = "swap"
          /\ hurtsNeighbor(last.events[k])
          /\ agents[last.events[k].j].value = last.events[k].requester

\* C17: considerSwap never finds the distance unchanged: for every agent of
\* a reachable state and both requester directions the hypothetical distance
\* differs from the current one, and no proposal of a tick was answered by
\* the neutral branch.
C17_NeutralNeverTaken ==
    /\ \A i \in DOMAIN agents : \A requesterDir \in { -1, 1 } :
          considerBranch(agents[i], requesterDir) # "neutral"
    /\ \A k \in 1 .. Len(last.events) :
          last.events[k].asked =>
              /\ last.events[k].branch \in { "helps", "hurts" }
              /\ helpsNeighbor(last.events[k]) \/ hurtsNeighbor(last.events[k])

\* C17 witness: in the last tick one neighbour was asked a swap that helps it
\* and another a swap that hurts it.
C17_Witness ==
    /\ last.tick = "full"
    /\ \E k \in 1 .. Len(last.events) :
          last.events[k].asked /\ last.events[k].branch = "helps"
    /\ \E k \in 1 .. Len(last.events) :
          last.events[k].asked /\ last.events[k].branch = "hurts"

\* C18: an agent that is not at its goal has a neighbour on the side of its
\* goal, so decide never takes the array-edge branch and after a tick no
\* agent is idle; an intent that points outside the array is a push.
C18_EdgeNeverTaken ==
    /\ \A i \in DOMAIN agents :
          ~atGoal(agents[i]) => (i + towardGoal(agents[i])) \in DOMAIN agents
    /\ \A i \in DOMAIN last.branches : last.branches[i] # "edge"
    /\ last.tick # "none" => \A i \in DOMAIN agents : agents[i].state # "idle"
    /\ \A i \in DOMAIN last.intents :
          (i + last.intents[i].direction) \notin DOMAIN agents =>
              last.intents[i].action = "push"

\* C18 witness: the last tick decided a push for an agent at the edge of the
\* array, away from its goal, where it has no neighbour.
C18_Witness ==
    /\ last.tick = "full"
    /\ \E i \in DOMAIN last.intents :
          /\ last.intents[i].action = "push"
          /\ last.branches[i] = "reroute"
          /\ (i + last.intents[i].direction) \notin DOMAIN agents
          /\ ~atGoal(agents[i])

\* C19: every agent's jamCount is at most its patience, 3: a proposal is
\* refused only to an agent whose jamCount was below its patience when it
\* decided, and an agent at its patience reroutes (jamCount 0) or is swapped
\* (jamCount lowered) before it proposes again.
C19_JamCountWithinPatience ==
    /\ \A i \in DOMAIN agents :
          agents[i].patience = 3 /\ agents[i].jamCount <= agents[i].patience
    /\ \A k \in JamEvents :
          last.decided[last.events[k].i].jamCount < last.decided[last.events[k].i].patience
    /\ \A i \in DOMAIN last.decided :
          last.branches[i] = "reroute" => last.decided[i].jamCount = 0

\* C19 witness: the proposal refused in the last tick brought the requester's
\* jamCount to its patience.
C19_Witness ==
    /\ last.tick = "full"
    /\ \E k \in JamEvents :
          LET e == last.events[k]
          IN  /\ agents[e.i].value = e.requester
              /\ last.decided[e.i].jamCount = 2
              /\ agents[e.i].jamCount = agents[e.i].patience

\* C20: in the snapshot emitted at the end of a tick every agent reported
\* with state satisfied has pos equal to its goal.
C20_SatisfiedIsAtGoal ==
    last.tick = "full" =>
        LET shot == snapshot(agents, step, swaps, jams, reroutes)
        IN  \A i \in DOMAIN shot.agents :
                shot.agents[i].state = "satisfied" =>
                    shot.agents[i].pos = shot.agents[i].goal

\* The sums over all agents of totalSwaps and of totalJams, from index k on.
RECURSIVE totalSwapsFrom(_, _)
totalSwapsFrom(ags, k) ==
    IF k >= Length(ags) THEN 0 ELSE ags[k].totalSwaps + totalSwapsFrom(ags, k + 1)

RECURSIVE totalJamsFrom(_, _)
totalJamsFrom(ags, k) ==
    IF k >= Length(ags) THEN 0 ELSE ags[k].totalJams + totalJamsFrom(ags, k + 1)

CountersAgree ==
    /\ totalSwapsFrom(agents, 0) = 2 * swaps
    /\ totalJamsFrom(agents, 0) = jams
    /\ reroutes <= swaps
    /\ step >= 0 /\ swaps >= 0 /\ jams >= 0 /\ reroutes >= 0

CountersGrow ==
    /\ last'.tick = "full" => step' = step + 1
    /\ last'.tick = "terminal" => step' = step
    /\ last'.op # "reset" =>
          /\ step' >= step
          /\ swaps' >= swaps
          /\ jams' >= jams
          /\ reroutes' >= reroutes
          /\ \A i \in DOMAIN agents :
                /\ holder(agents', agents[i].value).totalSwaps >= agents[i].totalSwaps
                /\ holder(agents', agents[i].value).totalJams >= agents[i].totalJams

\* C21: the run counters agree with the agents' counters in every state: the
\* totalSwaps of all agents add up to 2 * swaps, their totalJams to jams, and
\* reroutes <= swaps; step grows by exactly 1 in each tick that is not
\* terminal, and no counter decreases except by a reset.
C21_CountersConsistent == [](CountersAgree) /\ [][CountersGrow]_vars

\* C21 witness: a tick has ended a run in which proposals were accepted and
\* refused and a push was carried out, the agents' counters adding up.
C21_Witness ==
    /\ last.tick = "full"
    /\ step > 1
    /\ reroutes > 0
    /\ jams > reroutes
    /\ totalSwapsFrom(agents, 0) > 2 * reroutes
    /\ totalJamsFrom(agents, 0) = jams

====
